---- MODULE Spec2Model ----
(***************************************************************************)
(* Dataquartz chatbot: the knowledge-base component                        *)
(* (components/company_rag.py: CompanyKnowledgeBase) and the admin         *)
(* panel's Knowledge Base tab (pages/2_Admin_Panel.py) that drives it.     *)
(*                                                                         *)
(* Text is a sequence of one-character strings.  Similarity scores are in  *)
(* tenths (0.5 is 5).  A document of the knowledge base is a file number   *)
(* with a content version; a chunk is a window of one document.            *)
(***************************************************************************)
EXTENDS Integers, Sequences, FiniteSets, TLC

(* ------------------------------ bounds --------------------------------- *)
NumFiles == 2
MaxVer == 2
ChunksPerDoc == 3
MaxRespLen == 3
MaxSessions == 2
MaxMsgs == 3
MaxClock == 1
MaxAccounts == 4

(* ------------------------- program constants --------------------------- *)
K_PRIMARY == 5
SCORE_THRESHOLD == 5
K_FALLBACK == 2

Files == 1..NumFiles
Chats == {"c1"}
Admins == {"a1"}

NoFile == "NoFile"
Truncated == "Truncated"
Absent == "Absent"

GENERIC_MAP == "General company knowledge base."
DEFAULT_TONE == "Professional and concise"
NO_HISTORY == "No previous history."
NO_CONTEXT == "No company documents retrieved for this query."
NO_TEMP == "No temporary files uploaded."
UNKNOWN == "Unknown"

Summaries == {"summary-1", "summary-2"}
Tones == {DEFAULT_TONE, "Friendly"}
Answers == {"answer"}
Question == <<"q", "?">>
ExtraContexts == {<<>>, <<"x">>}
Histories == {<<>>, <<[role |-> "user", content |-> <<"h">>]>>,
              <<[role |-> "user", content |-> <<"h">>],
                [role |-> "assistant", content |-> <<"a">>]>>}

(* ------------------------------ text ----------------------------------- *)
Alphabet == {"y", "E", "S", "n", " "}
AllReplies == UNION {[1..n -> Alphabet] : n \in 0..MaxRespLen}
FewReplies == {<<"Y", "E", "S">>, <<"N", "O">>}
YES == <<"Y", "E", "S">>

UpperChar(c) ==
  CASE c = "y" -> "Y" [] c = "e" -> "E" [] c = "s" -> "S"
    [] c = "n" -> "N" [] c = "o" -> "O" [] OTHER -> c

\* str.upper()
Upper(s) == [i \in 1..Len(s) |-> UpperChar(s[i])]

RECURSIVE LStrip(_)
LStrip(s) == IF s # <<>> /\ Head(s) = " " THEN LStrip(Tail(s)) ELSE s

RECURSIVE RStrip(_)
RStrip(s) ==
  IF s # <<>> /\ s[Len(s)] = " " THEN RStrip(SubSeq(s, 1, Len(s) - 1)) ELSE s

\* str.strip()
Strip(s) == RStrip(LStrip(s))

\* t in s
Contains(s, t) ==
  \E i \in 0..(Len(s) - Len(t)) : SubSeq(s, i + 1, i + Len(t)) = t


(* --------------------------- document index ---------------------------- *)
\* A snapshot maps each file to the content version indexed (0: not there).
Snaps == [Files -> 0..MaxVer]
EmptySnap == [f \in Files |-> 0]
NoPart == [kind |-> "none", snap |-> EmptySnap]
CorruptPart == [kind |-> "corrupt", snap |-> EmptySnap]
Built(s) == [kind |-> "built", snap |-> s]
NoIndex == [dir |-> FALSE, faiss |-> NoPart, pkl |-> NoPart]

\* PyPDFLoader + RecursiveCharacterTextSplitter: the chunks of the documents,
\* in document order; every chunk carries its file as metadata 'source'.
RECURSIVE ChunksFrom(_, _)
ChunksFrom(snap, f) ==
  IF f > NumFiles THEN <<>>
  ELSE (IF snap[f] = 0 THEN <<>>
        ELSE [i \in 1..ChunksPerDoc |->
                [file |-> f, ver |-> snap[f], i |-> i,
                 metadata |-> [source |-> f]]])
       \o ChunksFrom(snap, f + 1)

SplitDocs(snap) == ChunksFrom(snap, 1)

\* FAISS.load_local succeeds on a directory holding index.faiss and index.pkl
\* written by one build.
Loadable(ix) ==
  /\ ix.dir
  /\ ix.faiss.kind = "built"
  /\ ix.pkl = ix.faiss

LoadLocal(ix) == SplitDocs(ix.faiss.snap)

\* the k nearest chunks by descending score (ties: index order)
RECURSIVE TopK(_, _, _, _)
TopK(chunks, sim, rest, k) ==
  IF k = 0 \/ rest = {} THEN <<>>
  ELSE LET p == CHOOSE x \in rest :
                  \A r \in rest : sim[x] > sim[r] \/ (sim[x] = sim[r] /\ x <= r)
       IN  <<[doc |-> chunks[p], score |-> sim[p]]>>
           \o TopK(chunks, sim, rest \ {p}, k - 1)

\* vectorstore.similarity_search(question, k)
Search(chunks, sim, k) == TopK(chunks, sim, DOMAIN chunks, k)

MeetsThreshold(score, min) == score >= min

\* retriever "similarity_score_threshold": the k nearest, without those
\* scoring below min_score
SearchWithThreshold(chunks, sim, k, min) ==
  LET Keep(e) == MeetsThreshold(e.score, min)
  IN  SelectSeq(Search(chunks, sim, k), Keep)

\* a variant without the fallback search
NeedsFallbackNever(primary) == FALSE

NeedsFallback(primary) == primary = <<>>

\* query, lines 153-163: thresholded search, then the k=2 fallback
Retrieve(chunks, sim) ==
  LET primary == SearchWithThreshold(chunks, sim, K_PRIMARY, SCORE_THRESHOLD)
  IN  IF NeedsFallback(primary)
      THEN [primary |-> primary, searches |-> 2,
            docs |-> Search(chunks, sim, K_FALLBACK)]
      ELSE [primary |-> primary, searches |-> 1, docs |-> primary]

\* the similarity of every chunk to the question, which the embedding
\* decides: every assignment of the scores, or the same score for every chunk
Scorings(chunks, scores, uniform) ==
  IF uniform THEN {[i \in DOMAIN chunks |-> s] : s \in scores}
  ELSE [DOMAIN chunks -> scores]

(* ------------------------------ stores --------------------------------- *)
VARIABLES
  kbDir,      \* knowledge_base/ exists
  kb,         \* knowledge_base/*.pdf: file -> content version (0: no file)
  idx,        \* vector_stores/db_faiss: [dir, faiss, pkl]
  manifest,   \* vector_stores/kb_manifest.json: NoFile, Truncated or summary
  settings,   \* settings row 'personality': Absent or the tone
  q,          \* per chat: the query() invocation in progress
  adm,        \* per admin: the Knowledge Base handler in progress
  apiKey,     \* OPENAI_API_KEY is configured
  ss,         \* per chat: st.session_state of the browser session
  db          \* dataquartz.db: chat_sessions and messages

vars == <<kbDir, kb, idx, manifest, settings, q, adm, apiKey, ss, db>>
stores == <<kbDir, kb, idx, manifest, settings>>
session == <<apiKey, ss, db>>

\* a variant of __init__ that goes on without a key
ConstructedAnyway(key) == TRUE

\* __init__, lines 26-30: without a key the script run stops at st.stop()
Constructed(key) == key


(* ------------------------------ query() -------------------------------- *)
QIdle ==
  [pc |-> "idle", extra |-> <<>>, hist |-> <<>>, fmtHist |-> <<>>,
   kbMap |-> "", reply |-> <<>>, resp |-> <<>>, primary |-> <<>>,
   docs |-> <<>>, sim |-> <<>>, context |-> <<>>, loads |-> 0, searches |-> 0,
   routeCalls |-> 0, genCalls |-> 0, tone |-> "", dbRead |-> "", prompt |-> <<>>,
   result |-> <<>>, err |-> "", trace |-> <<>>]

\* a step of query(): the new position, and the states of the orchestrator
\* entered on the way
Goto(r, pc, entered) == [r EXCEPT !.pc = pc, !.trace = @ \o entered]

\* a variant that calls the router again after a failed routing call
RaiseOrRetry(r, what) ==
  IF what = "router" THEN [r EXCEPT !.pc = "route"]
  ELSE [r EXCEPT !.pc = "failed", !.err = what]

\* an exception leaves query()
Raise(r, what) == [r EXCEPT !.pc = "failed", !.err = what]

\* lines 121-124
FormatHistory(hist) ==
  [i \in 1..Len(hist) |->
     [label |-> IF hist[i].role = "user" THEN "User" ELSE "Assistant",
      content |-> hist[i].content]]

\* a variant that returns the empty string without a manifest file
GetKbMapEmpty(m) ==
  IF m = NoFile THEN [ok |-> TRUE, value |-> ""]
  ELSE IF m = Truncated THEN [ok |-> FALSE, value |-> ""]
  ELSE [ok |-> TRUE, value |-> m]

\* _get_kb_map: the generic string without a manifest file, else the summary
\* of the file; json.load raises on a file that holds no JSON document.
GetKbMap(m) ==
  IF m = NoFile THEN [ok |-> TRUE, value |-> GENERIC_MAP]
  ELSE IF m = Truncated THEN [ok |-> FALSE, value |-> ""]
  ELSE [ok |-> TRUE, value |-> m]

\* a variant that does not look at the stored tone
GetPersonalityFixed(s, dbError) == DEFAULT_TONE

\* _get_personality: the stored tone; the default without a row or on any
\* database error.
GetPersonality(s, dbError) ==
  IF dbError THEN DEFAULT_TONE
  ELSE IF s = Absent THEN DEFAULT_TONE ELSE s

\* a variant that keeps the case of the reply
NormaliseKeepCase(reply) == Strip(reply)

\* line 143: .content.strip().upper()
Normalise(reply) == Upper(Strip(reply))

\* line 148 and line 208: "YES" in decision_resp
SaysYes(resp) == Contains(resp, YES)

\* a variant that does not ask whether the index directory exists
ShouldRetrieveUnchecked(resp, ix) == SaysYes(resp)

\* line 148
ShouldRetrieve(resp, ix) == SaysYes(resp) /\ ix.dir

\* a variant that leaves an empty block empty
BlockNoPlaceholder(text, placeholder) == [text |-> text, placeholder |-> ""]

\* a labelled block of the prompt: the text, or the placeholder for no text
Block(text, placeholder) ==
  [text |-> text, placeholder |-> IF text # <<>> THEN "" ELSE placeholder]

\* lines 171-201: the blocks in the order of the prompt
Assemble(tone, fmtHist, context, extra, question) ==
  <<[label |-> "ROLE", text |-> <<tone>>, placeholder |-> ""],
    [label |-> "CONVERSATION HISTORY"] @@ Block(fmtHist, NO_HISTORY),
    [label |-> "PERMANENT COMPANY CONTEXT"] @@ Block(context, NO_CONTEXT),
    [label |-> "TEMPORARY UPLOADED FILE CONTEXT"] @@ Block(extra, NO_TEMP),
    [label |-> "USER QUESTION", text |-> question, placeholder |-> ""]>>

SourceName(f) == "knowledge_base/" \o ToString(f) \o ".pdf"

\* a variant that keeps the first entry of every source
RECURSIVE Dedup(_)
Dedup(s) ==
  IF s = <<>> THEN <<>>
  ELSE LET rest == Dedup(SubSeq(s, 1, Len(s) - 1))
           last == s[Len(s)]
       IN  IF \E i \in 1..Len(rest) : rest[i] = last THEN rest
           ELSE Append(rest, last)

SourcesDeduplicated(docs) ==
  Dedup([i \in 1..Len(docs) |-> SourceName(docs[i].metadata.source)])

\* line 207
Sources(docs) ==
  [i \in 1..Len(docs) |->
     LET md == docs[i].metadata
     IN  IF "source" \in DOMAIN md THEN SourceName(md.source) ELSE UNKNOWN]

\* a variant that forgets the decision of the router
UsedKbExtraOnly(resp, extra) == Len(extra) > 0

\* a variant that forgets the extra context
UsedKbRouterOnly(resp, extra) == SaysYes(resp)

\* line 208
UsedKb(resp, extra) == SaysYes(resp) \/ Len(extra) > 0

\* lines 205-209
QueryResult(answer, docs, resp, extra) ==
  [answer |-> answer, sources |-> Sources(docs), used_kb |-> UsedKb(resp, extra)]

\* Chatbot page, lines 226-229: the sources shown under the answer
DisplayedSources(result) ==
  IF result.used_kb /\ result.sources # <<>>
  THEN {result.sources[i] : i \in DOMAIN result.sources}
  ELSE {}

\* a variant in which the calls of a process share their variables
QStepShared(p, r) == q' = [o \in DOMAIN q |-> r]

QStep(p, r) == q' = [q EXCEPT ![p] = r]

\* the caller invokes query(user_question, extra_context, history)
QStart(p, in) ==
  /\ q[p].pc = "idle"
  /\ Constructed(apiKey)
  /\ \E e \in in.extras, h \in in.histories :
       QStep(p, Goto([QIdle EXCEPT !.extra = e, !.hist = h], "start", <<"START">>))
  /\ UNCHANGED <<stores, adm, session>>

\* lines 121-127: format the history, read the manifest
QReadMap(p) ==
  /\ q[p].pc = "start"
  /\ LET m == GetKbMap(manifest)
         r == Goto([q[p] EXCEPT !.fmtHist = FormatHistory(q[p].hist)],
                   "route", <<"ROUTING">>)
     IN  IF m.ok THEN QStep(p, [r EXCEPT !.kbMap = m.value])
         ELSE QStep(p, Raise(r, "manifest"))
  /\ UNCHANGED <<stores, adm, session>>

\* lines 143-148: the routing call and the decision taken on its reply; with
\* the condition of line 148 false, context and docs stay empty
QRoute(p, in) ==
  /\ q[p].pc = "route"
  /\ LET called == [q[p] EXCEPT !.routeCalls = @ + 1]
     IN  \/ \E reply \in in.replies :
              LET resp == Normalise(reply)
                  r == [called EXCEPT !.reply = reply, !.resp = resp]
              IN  IF ShouldRetrieve(resp, idx)
                  THEN QStep(p, Goto(r, "retrieve", <<"RETRIEVING">>))
                  ELSE QStep(p, Goto(r, "assemble", <<"SKIP_RETRIEVAL", "ASSEMBLING">>))
         \/ QStep(p, Raise(called, "router"))
  /\ UNCHANGED <<stores, adm, session>>

\* lines 149-165: load the index, search, join the chunks
QRetrieve(p, in) ==
  /\ q[p].pc = "retrieve"
  /\ LET loading == [q[p] EXCEPT !.loads = @ + 1]
     IN  IF ~Loadable(idx) THEN QStep(p, Raise(loading, "load"))
         ELSE \/ \E sim \in Scorings(LoadLocal(idx), in.scores, in.uniform) :
                   LET got == Retrieve(LoadLocal(idx), sim)
                       D == [i \in 1..Len(got.docs) |-> got.docs[i].doc]
                   IN  QStep(p, Goto([loading EXCEPT !.sim = sim,
                                                     !.primary = got.primary,
                                                     !.searches = got.searches,
                                                     !.docs = D,
                                                     !.context = D],
                                     "assemble", <<"ASSEMBLING">>))
              \/ QStep(p, Raise([loading EXCEPT !.searches = 1], "search"))
  /\ UNCHANGED <<stores, adm, session>>

\* lines 168-201
QAssemble(p) ==
  /\ q[p].pc = "assemble"
  /\ \E dbError \in BOOLEAN :
       LET tone == GetPersonality(settings, dbError)
           prompt == Assemble(tone, q[p].fmtHist, q[p].context, q[p].extra, Question)
       IN  QStep(p, Goto([q[p] EXCEPT !.tone = tone, !.prompt = prompt,
                                      !.dbRead = IF dbError THEN "error" ELSE "read"],
                         "generate", <<"GENERATING">>))
  /\ UNCHANGED <<stores, adm, session>>

\* lines 203-209
QGenerate(p) ==
  /\ q[p].pc = "generate"
  /\ LET called == [q[p] EXCEPT !.genCalls = @ + 1]
     IN  \/ \E a \in Answers :
              QStep(p, Goto([called EXCEPT !.result =
                               <<QueryResult(a, q[p].docs, q[p].resp, q[p].extra)>>],
                            "done", <<"DONE">>))
         \/ QStep(p, Raise(called, "generate"))
  /\ UNCHANGED <<stores, adm, session>>

\* Chatbot page, line 91: the script run that would call query() stops in
\* the constructor
QHalt(p) ==
  /\ q[p].pc = "idle"
  /\ ~Constructed(apiKey)
  /\ QStep(p, [QIdle EXCEPT !.pc = "halted"])
  /\ UNCHANGED <<stores, adm, session>>

\* the caller has the result, or the exception; the script run has ended
QReturn(p) ==
  /\ q[p].pc \in {"done", "failed", "halted"}
  /\ QStep(p, QIdle)
  /\ UNCHANGED <<stores, adm, session>>

\* in: the inputs the environment draws from
Query(p, in) ==
  \/ QStart(p, in)
  \/ QHalt(p)
  \/ QReadMap(p)
  \/ QRoute(p, in)
  \/ QRetrieve(p, in)
  \/ QAssemble(p)
  \/ QGenerate(p)
  \/ QReturn(p)

(* ---------------- index_documents and update_manifest ------------------ *)
AIdle ==
  [pc |-> "idle", op |-> "none", loaded |-> EmptySnap, ret |-> "none",
   cause |-> "", summary |-> ""]

AStep(a, r) == adm' = [adm EXCEPT ![a] = r]

\* what the handler does with the value index_documents returned:
\* 'Process & Index Documents' (lines 209-212) regenerates the manifest after
\* a build that returned True; 'Remove' (line 236) and 'Save & Re-index'
\* (line 260) ignore the value.
AfterBuild(op, ret) ==
  IF op = "upload" /\ ret THEN "man_sample" ELSE "done"

\* index_documents returns ret
BuildReturns(r, ret, cause) ==
  [r EXCEPT !.pc = AfterBuild(r.op, ret),
            !.ret = IF ret THEN "True" ELSE "False",
            !.cause = cause]

\* the documents DirectoryLoader finds
LoadDocuments(dir) == dir

\* lines 97-104: the directory check, the load, the check for no documents
BuildLoad(a) ==
  /\ adm[a].pc = "build"
  /\ LET r == adm[a]
     IN  IF ~kbDir
         THEN /\ kbDir' = TRUE
              /\ AStep(a, BuildReturns(r, FALSE, "no_dir"))
         ELSE /\ UNCHANGED kbDir
              /\ \/ AStep(a, BuildReturns(r, FALSE, "load_error"))
                 \/ LET documents == LoadDocuments(kb)
                    IN  IF documents = EmptySnap
                        THEN AStep(a, BuildReturns(r, FALSE, "no_documents"))
                        ELSE AStep(a, [r EXCEPT !.pc = "embed", !.loaded = documents])
  /\ UNCHANGED <<kb, idx, manifest, settings, q, session>>

\* a variant that clears the index directory before it embeds
BuildEmbedClearing(a) ==
  /\ adm[a].pc = "embed"
  /\ idx' = NoIndex
  /\ \/ AStep(a, [adm[a] EXCEPT !.pc = "save_faiss"])
     \/ AStep(a, BuildReturns(adm[a], FALSE, "embed_error"))
  /\ UNCHANGED <<kbDir, kb, manifest, settings, q, session>>

\* lines 106-109: split, embed
BuildEmbed(a) ==
  /\ adm[a].pc = "embed"
  /\ \/ AStep(a, [adm[a] EXCEPT !.pc = "save_faiss"])
     \/ AStep(a, BuildReturns(adm[a], FALSE, "embed_error"))
  /\ UNCHANGED <<stores, q, session>>

\* lines 110-111, save_local: the directory, then index.faiss
SaveFaiss(a) ==
  /\ adm[a].pc = "save_faiss"
  /\ \/ /\ idx' = [idx EXCEPT !.dir = TRUE, !.faiss = Built(adm[a].loaded)]
        /\ AStep(a, [adm[a] EXCEPT !.pc = "save_pkl"])
     \/ /\ idx' = [idx EXCEPT !.dir = TRUE, !.faiss = CorruptPart]
        /\ AStep(a, BuildReturns(adm[a], FALSE, "save_error"))
  /\ UNCHANGED <<kbDir, kb, manifest, settings, q, session>>

\* line 111, save_local: index.pkl; line 112
SavePkl(a) ==
  /\ adm[a].pc = "save_pkl"
  /\ \/ /\ idx' = [idx EXCEPT !.pkl = Built(adm[a].loaded)]
        /\ AStep(a, BuildReturns(adm[a], TRUE, ""))
     \/ /\ idx' = [idx EXCEPT !.pkl = CorruptPart]
        /\ AStep(a, BuildReturns(adm[a], FALSE, "save_error"))
  /\ UNCHANGED <<kbDir, kb, manifest, settings, q, session>>

\* an exception no handler catches ends the script run
Crash(r) == [r EXCEPT !.pc = "error"]

\* lines 67-76: load the index and sample it
ManSample(a) ==
  /\ adm[a].pc = "man_sample"
  /\ IF ~idx.dir THEN AStep(a, [adm[a] EXCEPT !.pc = "done"])
     ELSE IF ~Loadable(idx) THEN AStep(a, Crash(adm[a]))
     ELSE \/ AStep(a, [adm[a] EXCEPT !.pc = "man_llm"])
          \/ AStep(a, Crash(adm[a]))
  /\ UNCHANGED <<stores, q, session>>

\* line 89
ManLlm(a) ==
  /\ adm[a].pc = "man_llm"
  /\ \/ \E s \in Summaries : AStep(a, [adm[a] EXCEPT !.pc = "man_open", !.summary = s])
     \/ AStep(a, Crash(adm[a]))
  /\ UNCHANGED <<stores, q, session>>

\* line 91: open(manifest_path, "w") leaves an empty file
ManOpen(a) ==
  /\ adm[a].pc = "man_open"
  /\ manifest' = Truncated
  /\ AStep(a, [adm[a] EXCEPT !.pc = "man_dump"])
  /\ UNCHANGED <<kbDir, kb, idx, settings, q, session>>

\* line 92
ManDump(a) ==
  /\ adm[a].pc = "man_dump"
  /\ manifest' = adm[a].summary
  /\ AStep(a, [adm[a] EXCEPT !.pc = "done"])
  /\ UNCHANGED <<kbDir, kb, idx, settings, q, session>>

(* ------------------- admin panel, Knowledge Base tab -------------------- *)
Existing(dir) == {f \in Files : dir[f] # 0}

\* 'Process & Index Documents', lines 194-212
Upload(a) ==
  /\ adm[a].pc = "idle"
  /\ Constructed(apiKey)
  /\ \E names \in SUBSET Files \ {{}} : \E up \in [names -> {1}] :
       LET new_files_to_index == names \ Existing(kb)
       IN  /\ kbDir' = TRUE
           /\ kb' = [f \in Files |-> IF f \in new_files_to_index THEN up[f] ELSE kb[f]]
           /\ AStep(a, [AIdle EXCEPT !.op = "upload",
                                     !.pc = IF new_files_to_index # {} THEN "build"
                                            ELSE "done"])
  /\ UNCHANGED <<idx, manifest, settings, q, session>>

\* 'Remove', lines 233-237
Remove(a) ==
  /\ adm[a].pc = "idle"
  /\ Constructed(apiKey)
  /\ \E f \in Existing(kb) :
       /\ kb' = [kb EXCEPT ![f] = 0]
       /\ AStep(a, [AIdle EXCEPT !.op = "remove", !.pc = "build"])
  /\ UNCHANGED <<kbDir, idx, manifest, settings, q, session>>

\* 'Save & Re-index', lines 257-263
SaveEdit(a) ==
  /\ adm[a].pc = "idle"
  /\ Constructed(apiKey)
  /\ \E f \in Existing(kb), v \in 1..MaxVer :
       /\ kb' = [kb EXCEPT ![f] = v]
       /\ AStep(a, [AIdle EXCEPT !.op = "save", !.pc = "build"])
  /\ UNCHANGED <<kbDir, idx, manifest, settings, q, session>>

\* 'Save Personality', lines 111-113
SavePersonality(a) ==
  /\ adm[a].pc = "idle"
  /\ \E t \in Tones : settings' = t
  /\ UNCHANGED <<kbDir, kb, idx, manifest, q, adm, session>>

\* Admin panel, line 189: the Knowledge Base tab stops in the constructor
KbHalt(a) ==
  /\ adm[a].pc = "idle"
  /\ ~Constructed(apiKey)
  /\ AStep(a, [AIdle EXCEPT !.pc = "halted"])
  /\ UNCHANGED <<stores, q, session>>

\* st.rerun(), or the end of the script run
Rerun(a) ==
  /\ adm[a].pc \in {"done", "error", "halted"}
  /\ AStep(a, AIdle)
  /\ UNCHANGED <<stores, q, session>>

IndexDocuments(a) == BuildLoad(a) \/ BuildEmbed(a) \/ SaveFaiss(a) \/ SavePkl(a)

UpdateManifest(a) == ManSample(a) \/ ManLlm(a) \/ ManOpen(a) \/ ManDump(a)

Admin(a) ==
  \/ Upload(a)
  \/ Remove(a)
  \/ SaveEdit(a)
  \/ SavePersonality(a)
  \/ IndexDocuments(a)
  \/ UpdateManifest(a)
  \/ KbHalt(a)
  \/ Rerun(a)

(* ------------------------ database.py: accounts ------------------------- *)
Users == {"u1", "u2"}
NoUser == "none"

\* init_db, lines 54-56; a text is a sequence, <<"pw">> is the text pw
admin_user == "gesmast"
admin_pass == <<"Sans@2007">>
admin_role == "admin"

\* hash_pass: the SHA-256 digest of a text, as a text; no two texts share one
HashPass(password) == <<"sha256">> \o password

Usernames == {admin_user} \cup Users
\* the passwords typed into the forms; one of them reads as a digest
Passwords == {admin_pass, <<"pw">>, HashPass(<<"pw">>)}

AccountIds == 1..MaxAccounts

\* a row of users; username "": there is no row with this id. typed and via
\* are not columns: the password the account was created with and the code
\* that created it, kept for the statements about accounts
NoAccount ==
  [username |-> "", password |-> <<>>, role |-> "", typed |-> <<>>, via |-> ""]

\* the users table; next: the id AUTOINCREMENT gives to the next row
NoAccounts == [next |-> 1, rows |-> [i \in AccountIds |-> NoAccount]]

\* username TEXT UNIQUE: the name is taken
Registered(t, user) == \E i \in AccountIds : t.rows[i].username = user

\* INSERT INTO users (username, password, role)
InsertUser(t, user, stored, role, typed, via) ==
  [t EXCEPT !.next = @ + 1,
            !.rows[t.next] = [username |-> user, password |-> stored,
                              role |-> role, typed |-> typed, via |-> via]]

\* the table has room for one more row
HasRoom(t) == t.next <= MaxAccounts

\* init_db, lines 52-61: the permanent admin is created when it is missing
InitDb(t) ==
  IF Registered(t, admin_user) THEN t
  ELSE InsertUser(t, admin_user, HashPass(admin_pass), admin_role,
                  admin_pass, "init_db")

\* create_user: ok is the value returned, users the table afterwards
CreateUser(t, user, pwd, role) ==
  IF Registered(t, user) THEN [ok |-> FALSE, users |-> t]
  ELSE [ok |-> TRUE,
        users |-> InsertUser(t, user, HashPass(pwd), role, pwd, "create_user")]

\* verify_user: id 0 and role "" stand for (None, None)
VerifyUser(t, user, pwd) ==
  LET found == {i \in AccountIds : /\ t.rows[i].username = user
                                   /\ t.rows[i].password = HashPass(pwd)}
  IN  IF found = {} THEN [id |-> 0, role |-> ""]
      ELSE LET i == CHOOSE i \in found : TRUE
           IN  [id |-> i, role |-> t.rows[i].role]

(* ---------------------- database.py: chat sessions ---------------------- *)
SessionIds == 1..MaxSessions
NoChat == 0

\* a row of chat_sessions; owner NoUser: there is no row with this id
NoRow == [owner |-> NoUser, title |-> ""]

\* next: the id AUTOINCREMENT gives to the next row of chat_sessions;
\* log[s]: the rows of messages with session_id s, in the order of their ids;
\* clock: CURRENT_TIMESTAMP, in whole seconds
EmptyDb ==
  [next |-> 1,
   sessions |-> [s \in SessionIds |-> NoRow],
   log |-> [s \in SessionIds |-> <<>>],
   clock |-> 0,
   accounts |-> InitDb(NoAccounts)]

Message(role, content) == [role |-> role, content |-> content]

\* create_new_session: the row, whose id is d.next
CreateNewSession(d, user, title) ==
  [d EXCEPT !.next = @ + 1,
            !.sessions[d.next] = [owner |-> user, title |-> title]]

\* get_user_sessions
GetUserSessions(d, user) == {s \in SessionIds : d.sessions[s].owner = user}

\* a row of messages: timestamp is DEFAULT CURRENT_TIMESTAMP
Row(role, content, timestamp) ==
  [role |-> role, content |-> content, timestamp |-> timestamp]

\* save_chat_message
SaveChatMessage(d, s, role, content) ==
  [d EXCEPT !.log[s] = Append(@, Row(role, content, d.clock))]

\* the rows with this timestamp, in the order of the table scan
AtTime(rows, t) == SelectSeq(rows, LAMBDA r : r.timestamp = t)

\* ORDER BY timestamp ASC over rows stamped t or later; rows with equal
\* timestamps stay in the order of the scan, as SQLite's sorter leaves them
RECURSIVE OrderByTimestamp(_, _)
OrderByTimestamp(rows, t) ==
  IF rows = <<>> THEN <<>>
  ELSE AtTime(rows, t)
         \o OrderByTimestamp(SelectSeq(rows, LAMBDA r : r.timestamp # t), t + 1)

\* SELECT role, content ... ORDER BY timestamp ASC, as a list of messages
SelectMessages(rows) ==
  LET ordered == OrderByTimestamp(rows, 0)
  IN  [i \in DOMAIN ordered |-> Message(ordered[i].role, ordered[i].content)]

\* get_chat_history
GetChatHistory(d, s) == SelectMessages(d.log[s])

\* update_session_title: UPDATE ... WHERE id = ?
UpdateSessionTitle(d, s, title) ==
  IF d.sessions[s].owner = NoUser THEN d
  ELSE [d EXCEPT !.sessions[s].title = title]

\* delete_session
DeleteSession(d, s) == [d EXCEPT !.sessions[s] = NoRow, !.log[s] = <<>>]

(* ------------------------------ chat page ------------------------------- *)
\* st.session_state before the first login; pc is the position of the
\* script run that handles a chat input, before what that run started from
SignedOut ==
  [user |-> NoUser, role |-> "", current |-> NoChat, messages |-> <<>>,
   temp |-> <<>>, pc |-> "idle", before |-> <<>>]

\* the text a user types, and the text of a file attached in a chat
TextOf(user) == <<"q", user>>
Attachment(s, user) == [chat |-> s, owner |-> user]

\* ORDER BY created_at DESC: the first row is the newest session
Newest(S) == CHOOSE s \in S : \A t \in S : t <= s

\* lines 160-166: a session is selected when none is
EnsureSession(st, d) ==
  IF st.current # NoChat THEN [ss |-> st, db |-> d]
  ELSE LET mine == GetUserSessions(d, st.user)
       IN  IF mine # {}
           THEN [ss |-> [st EXCEPT !.current = Newest(mine),
                                   !.messages = GetChatHistory(d, Newest(mine))],
                 db |-> d]
           ELSE [ss |-> [st EXCEPT !.current = d.next, !.messages = <<>>],
                 db |-> CreateNewSession(d, st.user, "New Chat")]

\* the session table has room for the row EnsureSession may create
CanEnsure(st, d) ==
  \/ st.current # NoChat
  \/ GetUserSessions(d, st.user) # {}
  \/ d.next <= MaxSessions

PageStep(p, st, d) ==
  /\ ss' = [ss EXCEPT ![p] = st]
  /\ db' = d

\* a run of the chat page to its end
Load(p, st, d) ==
  /\ CanEnsure(st, d)
  /\ PageStep(p, EnsureSession(st, d).ss, EnsureSession(st, d).db)

AtPage(p) ==
  /\ ss[p].pc = "idle"
  /\ ss[p].user # NoUser
  /\ Constructed(apiKey)

\* main_app.py, lines 121-125 and 144-147: login, then the chat page
Login(p) ==
  /\ ss[p].pc = "idle"
  /\ ss[p].user = NoUser
  /\ \E u \in Users :
       LET st == [ss[p] EXCEPT !.user = u]
       IN  IF Constructed(apiKey) THEN Load(p, st, db) ELSE PageStep(p, st, db)
  /\ UNCHANGED <<stores, q, adm, apiKey>>

\* lines 112-114
Logout(p) ==
  /\ AtPage(p)
  /\ PageStep(p, [ss[p] EXCEPT !.user = NoUser, !.role = ""], db)
  /\ UNCHANGED <<stores, q, adm, apiKey>>

\* lines 117-122
NewChat(p) ==
  /\ AtPage(p)
  /\ db.next <= MaxSessions
  /\ PageStep(p, [ss[p] EXCEPT !.current = db.next, !.messages = <<>>,
                               !.temp = <<>>],
              CreateNewSession(db, ss[p].user, "New Discussion"))
  /\ UNCHANGED <<stores, q, adm, apiKey>>

\* lines 138-141
SelectChat(p) ==
  /\ AtPage(p)
  /\ \E s \in GetUserSessions(db, ss[p].user) :
       PageStep(p, [ss[p] EXCEPT !.current = s,
                                 !.messages = GetChatHistory(db, s)], db)
  /\ UNCHANGED <<stores, q, adm, apiKey>>

\* lines 146-148
RenameChat(p) ==
  /\ AtPage(p)
  /\ \E s \in GetUserSessions(db, ss[p].user) :
       Load(p, ss[p], UpdateSessionTitle(db, s, "renamed"))
  /\ UNCHANGED <<stores, q, adm, apiKey>>

\* lines 150-154, and lines 160-166 of the run st.rerun() starts
DeleteChat(p) ==
  /\ AtPage(p)
  /\ \E s \in GetUserSessions(db, ss[p].user) :
       Load(p, [ss[p] EXCEPT !.current = IF @ = s THEN NoChat ELSE @],
            DeleteSession(db, s))
  /\ UNCHANGED <<stores, q, adm, apiKey>>

\* what a chat turn started from
Snapshot(st, d) ==
  [messages |-> st.messages,
   log |-> d.log[st.current],
   title |-> d.sessions[st.current].title]

\* lines 207-220: the user's message is saved and shown, query() is called
Ask(p, st, d) ==
  LET text == TextOf(st.user)
      said == [st EXCEPT !.messages = Append(@, Message("user", text)),
                         !.pc = "query"]
  IN  /\ PageStep(p, said, SaveChatMessage(d, st.current, "user", text))
      /\ q' = [q EXCEPT ![p] = Goto([QIdle EXCEPT !.extra = said.temp,
                                                  !.hist = said.messages],
                                    "start", <<"START">>)]

\* lines 189-202: a chat input, with or without attached files
Send(p) ==
  /\ AtPage(p)
  /\ ss[p].current # NoChat
  /\ Len(db.log[ss[p].current]) + 2 <= MaxMsgs
  /\ Len(ss[p].messages) + 2 <= MaxMsgs
  /\ \E files \in BOOLEAN :
       LET st == ss[p]
           filed == [st EXCEPT
                       !.temp = IF files THEN <<Attachment(st.current, st.user)>>
                                ELSE @,
                       !.before = <<Snapshot(st, db)>>]
       IN  IF st.messages = <<>>
           THEN PageStep(p, [filed EXCEPT !.pc = "title"], db) /\ UNCHANGED q
           ELSE Ask(p, filed, db)
  /\ UNCHANGED <<stores, adm, apiKey>>

\* lines 204-205: the title of a new chat, then lines 207-220
Title(p) ==
  /\ ss[p].pc = "title"
  /\ \/ Ask(p, ss[p], UpdateSessionTitle(db, ss[p].current, "generated"))
     \/ PageStep(p, [ss[p] EXCEPT !.pc = "aborted"], db) /\ UNCHANGED q
  /\ UNCHANGED <<stores, adm, apiKey>>

\* lines 222-233: the answer is shown and saved
Answer(p) ==
  /\ ss[p].pc = "query"
  /\ q[p].pc = "done"
  /\ LET answer == <<q[p].result[1].answer>>
     IN  PageStep(p, [ss[p] EXCEPT !.messages = Append(@, Message("assistant", answer)),
                                   !.pc = "idle", !.before = <<>>],
                  SaveChatMessage(db, ss[p].current, "assistant", answer))
  /\ q' = [q EXCEPT ![p] = QIdle]
  /\ UNCHANGED <<stores, adm, apiKey>>

\* line 216: query() raised, the script run ends there
Abort(p) ==
  /\ ss[p].pc = "query"
  /\ q[p].pc = "failed"
  /\ PageStep(p, [ss[p] EXCEPT !.pc = "aborted"], db)
  /\ q' = [q EXCEPT ![p] = QIdle]
  /\ UNCHANGED <<stores, adm, apiKey>>

\* a second passes on the clock CURRENT_TIMESTAMP reads
Second ==
  /\ db.clock < MaxClock
  /\ db' = [db EXCEPT !.clock = @ + 1]
  /\ UNCHANGED <<stores, q, adm, apiKey, ss>>

\* the page is used again after the error
Dismiss(p) ==
  /\ ss[p].pc = "aborted"
  /\ PageStep(p, [ss[p] EXCEPT !.pc = "idle", !.before = <<>>], db)
  /\ UNCHANGED <<stores, q, adm, apiKey>>

ChatPage(p) ==
  \/ Login(p)
  \/ Logout(p)
  \/ NewChat(p)
  \/ SelectChat(p)
  \/ RenameChat(p)
  \/ DeleteChat(p)
  \/ Send(p)
  \/ Title(p)
  \/ Answer(p)
  \/ Abort(p)
  \/ Dismiss(p)

(* ------------------- login, registration and the users ------------------ *)
\* main_app.py, line 8: every run of the main page begins with init_db
MainApp(d) == [d EXCEPT !.accounts = InitDb(@)]

\* init_db finds the permanent admin or has room to create it
CanBootstrap(d) == Registered(d.accounts, admin_user) \/ HasRoom(d.accounts)

\* main_app.py, lines 119-127: Access Portal
AccessPortal(p) ==
  /\ ss[p].pc = "idle"
  /\ ss[p].user = NoUser
  /\ CanBootstrap(db)
  /\ \E u \in Usernames, pw \in Passwords :
       LET d == MainApp(db)
           found == VerifyUser(d.accounts, u, pw)
       IN  IF found.id # 0
           THEN PageStep(p, [ss[p] EXCEPT !.user = u, !.role = found.role], d)
           ELSE PageStep(p, ss[p], d)
  /\ UNCHANGED <<stores, q, adm, apiKey>>

\* main_app.py, lines 130-140: Register
Register(p) ==
  /\ ss[p].pc = "idle"
  /\ ss[p].user = NoUser
  /\ CanBootstrap(db)
  /\ HasRoom(MainApp(db).accounts)
  /\ \E nu \in Usernames, np \in Passwords :
       LET d == MainApp(db)
           made == CreateUser(d.accounts, nu, np, "user")
           found == VerifyUser(made.users, nu, np)
           after == [d EXCEPT !.accounts = made.users]
       IN  IF made.ok /\ found.id # 0
           THEN PageStep(p, [ss[p] EXCEPT !.user = nu, !.role = found.role], after)
           ELSE PageStep(p, ss[p], after)
  /\ UNCHANGED <<stores, q, adm, apiKey>>

\* Admin panel, line 15: the page is open to a logged-in admin only
AtAdminPanel(p) ==
  /\ ss[p].pc = "idle"
  /\ ss[p].user # NoUser
  /\ ss[p].role = "admin"

\* Admin panel, lines 98-100
AdminLogout(p) ==
  /\ AtAdminPanel(p)
  /\ PageStep(p, [ss[p] EXCEPT !.user = NoUser, !.role = ""], db)
  /\ UNCHANGED <<stores, q, adm, apiKey>>

\* Admin panel, lines 123-136: Register Admin stores the password as typed
RegisterAdmin(p) ==
  /\ AtAdminPanel(p)
  /\ HasRoom(db.accounts)
  /\ \E new_u \in Usernames, new_p \in Passwords :
       IF Registered(db.accounts, new_u)
       THEN PageStep(p, ss[p], db)
       ELSE PageStep(p, ss[p],
                     [db EXCEPT !.accounts = InsertUser(@, new_u, new_p, "admin",
                                                        new_p, "Register Admin")])
  /\ UNCHANGED <<stores, q, adm, apiKey>>

\* the rows of users with controls: every account but the one logged in
Others(p) ==
  {i \in AccountIds : /\ db.accounts.rows[i].username # ""
                      /\ db.accounts.rows[i].username # ss[p].user}

\* Admin panel, lines 158-164: Promote or Demote
ChangeRole(p) ==
  /\ AtAdminPanel(p)
  /\ \E i \in Others(p) :
       PageStep(p, ss[p],
                [db EXCEPT !.accounts.rows[i].role =
                             IF @ = "user" THEN "admin" ELSE "user"])
  /\ UNCHANGED <<stores, q, adm, apiKey>>

\* Admin panel, lines 167-178: Delete, confirmed with YES
DeleteUser(p) ==
  /\ AtAdminPanel(p)
  /\ \E i \in Others(p) :
       PageStep(p, ss[p], [db EXCEPT !.accounts.rows[i] = NoAccount])
  /\ UNCHANGED <<stores, q, adm, apiKey>>

Accounts(p) ==
  \/ AccessPortal(p)
  \/ Register(p)
  \/ AdminLogout(p)
  \/ RegisterAdmin(p)
  \/ ChangeRole(p)
  \/ DeleteUser(p)

(* --------------------------- the whole system --------------------------- *)
\* a fresh deployment after init_db
Init ==
  /\ kbDir \in BOOLEAN
  /\ kb = EmptySnap
  /\ idx = NoIndex
  /\ manifest = NoFile
  /\ settings = DEFAULT_TONE
  /\ q = [p \in Chats |-> QIdle]
  /\ adm = [a \in Admins |-> AIdle]
  /\ apiKey \in BOOLEAN
  /\ ss = [p \in Chats |-> SignedOut]
  /\ db = EmptyDb

\* the whole system runs on few inputs
FewInputs ==
  [replies |-> FewReplies, extras |-> {<<>>}, histories |-> {<<>>},
   scores |-> {SCORE_THRESHOLD}, uniform |-> TRUE]

Next ==
  \/ \E p \in Chats : Query(p, FewInputs)
  \/ \E a \in Admins : Admin(a)

Spec == Init /\ [][Next]_vars

NextAdmin == \E a \in Admins : Admin(a)

SpecAdmin == Init /\ [][NextAdmin]_vars

(* ---------------------- the query against fixed stores ----------------- *)
\* the indexes a build leaves behind: none, a completed one, and the
\* directory of one whose save did not complete
FirstSnaps == [Files -> {0, 1}] \ {EmptySnap}
BuiltIndexes == {[dir |-> TRUE, faiss |-> Built(s), pkl |-> Built(s)] : s \in FirstSnaps}
BrokenIndexes == {[dir |-> TRUE, faiss |-> Built(s), pkl |-> NoPart] : s \in FirstSnaps}

InitQuery ==
  /\ kbDir = TRUE
  /\ kb = EmptySnap
  /\ idx \in {NoIndex} \cup BuiltIndexes \cup BrokenIndexes
  /\ manifest \in {NoFile, Truncated} \cup Summaries
  /\ settings \in Tones
  /\ q = [p \in Chats |-> QIdle]
  /\ adm = [a \in Admins |-> AIdle]
  /\ apiKey \in BOOLEAN
  /\ ss = [p \in Chats |-> SignedOut]
  /\ db = EmptyDb

Scores == {SCORE_THRESHOLD - 1, SCORE_THRESHOLD}

\* every reply of the router, chunks scored alike
ReplyInputs ==
  [replies |-> AllReplies, extras |-> ExtraContexts, histories |-> Histories,
   scores |-> Scores, uniform |-> TRUE]

NextQuery == \E p \in Chats : Query(p, ReplyInputs)

SpecQuery == InitQuery /\ [][NextQuery]_vars

(* ------------------ the retrieval against fixed stores ------------------ *)
\* every scoring of the chunks
ScoreInputs ==
  [replies |-> FewReplies, extras |-> ExtraContexts, histories |-> {<<>>},
   scores |-> Scores, uniform |-> FALSE]

\* query() at line 149: the router said YES and the index directory exists
AtRetrieve(e) ==
  LET started == Goto([QIdle EXCEPT !.extra = e], "start", <<"START">>)
      routing == [Goto(started, "route", <<"ROUTING">>) EXCEPT !.kbMap = GENERIC_MAP]
      routed == [routing EXCEPT !.routeCalls = 1, !.reply = YES,
                                !.resp = Normalise(YES)]
  IN  Goto(routed, "retrieve", <<"RETRIEVING">>)

InitRetrieve ==
  /\ kbDir = TRUE
  /\ kb = EmptySnap
  /\ idx \in BuiltIndexes \cup BrokenIndexes
  /\ manifest = NoFile
  /\ settings \in Tones
  /\ \E e \in ExtraContexts : q = [p \in Chats |-> AtRetrieve(e)]
  /\ adm = [a \in Admins |-> AIdle]
  /\ apiKey = TRUE
  /\ ss = [p \in Chats |-> SignedOut]
  /\ db = EmptyDb

NextRetrieve ==
  \E p \in Chats : QRetrieve(p, ScoreInputs) \/ QAssemble(p) \/ QGenerate(p)

SpecRetrieve == InitRetrieve /\ [][NextRetrieve]_vars

\* a deployment with one document indexed
OneDocument == [f \in Files |-> IF f = 1 THEN 1 ELSE 0]

(* ------------------- with and without the credential ------------------- *)
\* a fresh deployment, the key configured or not: chat calls, uploads and
\* removals
NextCredential ==
  \/ \E p \in Chats : Query(p, FewInputs)
  \/ \E a \in Admins :
       \/ Upload(a)
       \/ Remove(a)
       \/ IndexDocuments(a)
       \/ UpdateManifest(a)
       \/ KbHalt(a)
       \/ Rerun(a)

SpecCredential == Init /\ [][NextCredential]_vars

(* ------------------------- two admin sessions --------------------------- *)
\* two browser sessions on the admin panel, each a script run of its own
TwoAdmins == {"a1", "a2"}

\* a knowledge base of every file, indexed
AllFiles == [f \in Files |-> 1]

InitRebuilds ==
  /\ kbDir = TRUE
  /\ kb = AllFiles
  /\ idx = [dir |-> TRUE, faiss |-> Built(AllFiles), pkl |-> Built(AllFiles)]
  /\ manifest = NoFile
  /\ settings = DEFAULT_TONE
  /\ q = [p \in Chats |-> QIdle]
  /\ adm = [a \in TwoAdmins |-> AIdle]
  /\ apiKey = TRUE
  /\ ss = [p \in Chats |-> SignedOut]
  /\ db = EmptyDb

NextRebuilds ==
  \E a \in TwoAdmins :
    \/ Remove(a)
    \/ SaveEdit(a)
    \/ IndexDocuments(a)
    \/ Rerun(a)

SpecRebuilds == InitRebuilds /\ [][NextRebuilds]_vars

(* ------------------------ two calls of query() -------------------------- *)
\* two chat sessions of one server process
TwoChats == {"c1", "c2"}

InitTwoQueries ==
  /\ kbDir = TRUE
  /\ kb = EmptySnap
  /\ idx \in {NoIndex} \cup BuiltIndexes
  /\ manifest \in {NoFile} \cup Summaries
  /\ settings \in Tones
  /\ q = [p \in TwoChats |-> QIdle]
  /\ adm = [a \in Admins |-> AIdle]
  /\ apiKey = TRUE
  /\ ss = [p \in Chats |-> SignedOut]
  /\ db = EmptyDb

\* few replies, every extra context and history
CallInputs ==
  [replies |-> FewReplies, extras |-> ExtraContexts, histories |-> Histories,
   scores |-> {SCORE_THRESHOLD}, uniform |-> TRUE]

NextTwoQueries ==
  \E p \in TwoChats :
    \/ QStart(p, CallInputs)
    \/ QReadMap(p)
    \/ QRoute(p, CallInputs)
    \/ QRetrieve(p, CallInputs)
    \/ QAssemble(p)
    \/ QGenerate(p)
    \/ QReturn(p)

SpecTwoQueries == InitTwoQueries /\ [][NextTwoQueries]_vars

(* ------------------- the persona and the calls using it ----------------- *)
InitPersona ==
  /\ kbDir = TRUE
  /\ kb = OneDocument
  /\ idx = [dir |-> TRUE, faiss |-> Built(OneDocument), pkl |-> Built(OneDocument)]
  /\ manifest = NoFile
  /\ settings = DEFAULT_TONE
  /\ q = [p \in TwoChats |-> QIdle]
  /\ adm = [a \in Admins |-> AIdle]
  /\ apiKey = TRUE
  /\ ss = [p \in Chats |-> SignedOut]
  /\ db = EmptyDb

NextPersona ==
  \/ \E a \in Admins : SavePersonality(a)
  \/ \E p \in TwoChats :
       \/ QStart(p, FewInputs)
       \/ QReadMap(p)
       \/ QRoute(p, FewInputs)
       \/ QRetrieve(p, FewInputs)
       \/ QAssemble(p)
       \/ QGenerate(p)
       \/ QReturn(p)

SpecPersona == InitPersona /\ [][NextPersona]_vars

(* --------------------- the chat page, one browser ---------------------- *)
InitChat ==
  /\ kbDir = TRUE
  /\ kb = OneDocument
  /\ idx = [dir |-> TRUE, faiss |-> Built(OneDocument), pkl |-> Built(OneDocument)]
  /\ manifest = NoFile
  /\ settings = DEFAULT_TONE
  /\ q = [p \in Chats |-> QIdle]
  /\ adm = [a \in Admins |-> AIdle]
  /\ apiKey = TRUE
  /\ ss = [p \in Chats |-> SignedOut]
  /\ db = EmptyDb

NextChat ==
  \/ \E p \in Chats :
       \/ ChatPage(p)
       \/ QReadMap(p)
       \/ QRoute(p, FewInputs)
       \/ QRetrieve(p, FewInputs)
       \/ QAssemble(p)
       \/ QGenerate(p)
  \/ Second

SpecChat == InitChat /\ [][NextChat]_vars

(* ----------------------- the accounts, one browser ---------------------- *)
NextAccounts == \E p \in Chats : Accounts(p) \/ Logout(p)

SpecAccounts == InitChat /\ [][NextAccounts]_vars

(* ------------------ the chat page, two tabs of one user ----------------- *)
\* the user u1 has logged in in two browser tabs: the first run of the chat
\* page created the chat, the second selected it as the newest of the user
InitTwoTabs ==
  /\ kbDir = TRUE
  /\ kb = OneDocument
  /\ idx = [dir |-> TRUE, faiss |-> Built(OneDocument), pkl |-> Built(OneDocument)]
  /\ manifest = NoFile
  /\ settings = DEFAULT_TONE
  /\ q = [p \in TwoChats |-> QIdle]
  /\ adm = [a \in Admins |-> AIdle]
  /\ apiKey = TRUE
  /\ db = CreateNewSession(EmptyDb, "u1", "New Chat")
  /\ ss = [p \in TwoChats |-> [SignedOut EXCEPT !.user = "u1", !.current = 1]]

NextTwoTabs ==
  \/ \E p \in TwoChats :
       \/ SelectChat(p)
       \/ Send(p)
       \/ Title(p)
       \/ Answer(p)
       \/ Abort(p)
       \/ Dismiss(p)
       \/ QReadMap(p)
       \/ QRoute(p, FewInputs)
       \/ QRetrieve(p, FewInputs)
       \/ QAssemble(p)
       \/ QGenerate(p)
  \/ Second

SpecTwoTabs == InitTwoTabs /\ [][NextTwoTabs]_vars


(* ------------------------------- claims -------------------------------- *)
\* the reply holds the letters y, e, s in a row, in either case
HasYes(reply) ==
  \E i \in 1..(Len(reply) - 2) :
    /\ reply[i] \in {"y", "Y"}
    /\ reply[i + 1] \in {"e", "E"}
    /\ reply[i + 2] \in {"s", "S"}

InTrace(r, state) == \E i \in DOMAIN r.trace : r.trace[i] = state

\* the routing call has returned and line 148 has been evaluated
Decided(r) == InTrace(r, "RETRIEVING") \/ InTrace(r, "SKIP_RETRIEVAL")

\* C1: the retrieval step (load and search) runs exactly when the router said
\* YES and the index directory exists; otherwise nothing is loaded or
\* searched, the call does not fail there, the permanent-context block of the
\* prompt is the placeholder and the sources of the result are empty.
C1_RetrievalIffYesAndIndex ==
  \A p \in Chats :
    LET r == q[p]
        wanted == HasYes(r.reply) /\ idx.dir
    IN  Decided(r) =>
          /\ (r.loads > 0 \/ r.pc = "retrieve") <=> wanted
          /\ InTrace(r, "RETRIEVING") <=> wanted
          /\ ~wanted =>
               /\ r.loads = 0 /\ r.searches = 0 /\ r.docs = <<>>
               /\ r.err \in {"", "generate"}
               /\ r.prompt # <<>> =>
                    /\ r.prompt[3].text = <<>>
                    /\ r.prompt[3].placeholder = NO_CONTEXT
               /\ r.result # <<>> => r.result[1].sources = <<>>

\* a call that completed although the router said YES and no index exists
C1_Witness ==
  \E p \in Chats :
    /\ q[p].pc = "done"
    /\ HasYes(q[p].reply)
    /\ ~idx.dir
    /\ q[p].loads = 0
    /\ q[p].result[1].sources = <<>>
    /\ q[p].prompt[3].placeholder = NO_CONTEXT

\* C2: used_kb of the result is true exactly when the router said YES or
\* extra_context is not empty, whatever was retrieved.
C2_UsedKbIsIntent ==
  \A p \in Chats :
    q[p].result # <<>> =>
      (q[p].result[1].used_kb <=> (HasYes(q[p].reply) \/ q[p].extra # <<>>))

\* used_kb is true with the router saying YES, no index and no extra context
C2_Witness ==
  \E p \in Chats :
    /\ q[p].result # <<>>
    /\ q[p].result[1].used_kb
    /\ HasYes(q[p].reply)
    /\ q[p].extra = <<>>
    /\ ~idx.dir
    /\ q[p].result[1].sources = <<>>

IsPrefix(s, t) == Len(s) <= Len(t) /\ s = SubSeq(t, 1, Len(s))

WithRetrieval ==
  <<"START", "ROUTING", "RETRIEVING", "ASSEMBLING", "GENERATING", "DONE">>
WithoutRetrieval ==
  <<"START", "ROUTING", "SKIP_RETRIEVAL", "ASSEMBLING", "GENERATING", "DONE">>

\* C6: an invocation passes START, ROUTING, RETRIEVING or SKIP_RETRIEVAL,
\* ASSEMBLING, GENERATING, DONE in this order; the routing call returns before
\* any load or search, the prompt is assembled after that, the generation call
\* is made once and after assembly; no call is made twice, and a failed call
\* leaves no result.
C6_StateOrder ==
  \A p \in Chats :
    LET r == q[p]
    IN  /\ IsPrefix(r.trace, WithRetrieval) \/ IsPrefix(r.trace, WithoutRetrieval)
        /\ r.routeCalls <= 1 /\ r.genCalls <= 1 /\ r.loads <= 1
        /\ r.loads > 0 => (r.routeCalls = 1 /\ r.err # "router")
        /\ r.prompt # <<>> => (Decided(r) /\ r.pc # "retrieve")
        /\ r.genCalls = 1 => (r.prompt # <<>> /\ r.tone # "")
        /\ r.pc = "failed" => (r.result = <<>> /\ ~InTrace(r, "DONE"))
        /\ r.result # <<>> =>
             /\ r.pc = "done"
             /\ r.trace \in {WithRetrieval, WithoutRetrieval}
             /\ r.routeCalls = 1 /\ r.genCalls = 1

\* a completed invocation that retrieved
C6_Witness ==
  \E p \in Chats :
    /\ q[p].pc = "done"
    /\ q[p].trace = WithRetrieval
    /\ q[p].docs # <<>>
    /\ q[p].genCalls = 1

\* C7: reading the manifest returns the generic string when there is no
\* manifest file and the summary of the file when there is one, and leaves
\* the manifest as it is.
C7_ManifestRead ==
  [][\A p \in Chats :
       (q[p].pc = "start" /\ q'[p].pc # "start") =>
         /\ manifest' = manifest
         /\ manifest = NoFile =>
              (q'[p].pc = "route" /\ q'[p].kbMap = GENERIC_MAP /\ q'[p].err = "")
         /\ manifest \in Summaries =>
              (q'[p].pc = "route" /\ q'[p].kbMap = manifest)]_vars

\* the generic string was read on a system without a manifest file
C7_Witness ==
  \E p \in Chats :
    /\ q[p].pc = "route"
    /\ manifest = NoFile
    /\ q[p].kbMap = GENERIC_MAP
    /\ q[p].kbMap # ""


Min(a, b) == IF a <= b THEN a ELSE b

\* C3: the thresholded search (k=5, 0.5) runs first and the k=2 search only
\* after it returned nothing; a retrieval on a non-empty index returns at
\* least one chunk: at most 5 reaching 0.5, or else at most 2, also when no
\* chunk reaches 0.5.
C3_ThresholdThenFallback ==
  \A p \in Chats :
    LET r == q[p]
        n == Len(r.sim)
        reaching == {i \in 1..n : r.sim[i] >= 5}
    IN  (r.pc \in {"assemble", "generate", "done"} /\ r.loads = 1) =>
          /\ n > 0
          /\ r.docs # <<>>
          /\ r.searches \in {1, 2}
          /\ r.searches = 2 <=> r.primary = <<>>
          /\ r.primary = <<>> <=> reaching = {}
          /\ r.searches = 1 =>
               /\ Len(r.docs) = Min(5, Cardinality(reaching))
               /\ \A i \in 1..Len(r.primary) : r.primary[i].score >= 5
               /\ r.docs = [i \in 1..Len(r.primary) |-> r.primary[i].doc]
          /\ r.searches = 2 => Len(r.docs) = Min(2, n)

\* chunks were retrieved although none reaches the threshold
C3_Witness ==
  \E p \in Chats :
    /\ q[p].pc = "assemble"
    /\ q[p].sim # <<>>
    /\ \A i \in DOMAIN q[p].sim : q[p].sim[i] < 5
    /\ q[p].searches = 2
    /\ Len(q[p].docs) = 2

NoDuplicates(s) == \A i, j \in DOMAIN s : i # j => s[i] # s[j]

\* C5 as claimed: no source identifier appears twice in the sources of a
\* result.
C5_SourcesDeduplicated ==
  \A p \in Chats : q[p].result # <<>> => NoDuplicates(q[p].result[1].sources)

\* C5 as amended: the sources of a result hold one entry per retrieved chunk,
\* in the order retrieved: the source identifier of the chunk, once for every
\* chunk of that document; the chat page shows each identifier once.
C5_SourcesPerChunk ==
  \A p \in Chats :
    LET r == q[p] IN
    r.result # <<>> =>
      LET src == r.result[1].sources
      IN  /\ Len(src) = Len(r.docs)
          /\ \A i \in 1..Len(src) : src[i] = SourceName(r.docs[i].file)
          /\ \A i, j \in 1..Len(src) :
               (r.docs[i].file = r.docs[j].file) <=> (src[i] = src[j])
          /\ r.docs # <<>> =>
               Cardinality(DisplayedSources(r.result[1]))
                 = Cardinality({r.docs[i].file : i \in 1..Len(r.docs)})

\* a result whose sources name one document twice
C5_Witness ==
  \E p \in Chats :
    /\ q[p].result # <<>>
    /\ Len(q[p].result[1].sources) >= 2
    /\ q[p].result[1].sources[1] = q[p].result[1].sources[2]


\* C8 as claimed: no invocation fails on reading the manifest; with a manifest
\* file that cannot be parsed the call goes on to the routing call with the
\* generic string.
C8_ManifestFailureDegrades ==
  \A p \in Chats :
    InTrace(q[p], "ROUTING") =>
      /\ q[p].err # "manifest"
      /\ (q[p].pc = "route" /\ manifest = Truncated) => q[p].kbMap = GENERIC_MAP

\* the failures of a build the claim names: no knowledge-base directory, no
\* documents, an error reading or parsing them, an error embedding them
NamedCauses == {"no_dir", "no_documents", "load_error", "embed_error"}

\* C9: a build that fails for one of the named causes returns False to its
\* caller, which goes on, and no step of that build has written the index:
\* the failure comes from a position before the save, and no step from such a
\* position changes the persisted index.
C9_FailedBuildLeavesIndex ==
  [][\A a \in Admins :
       /\ (adm[a].pc \in {"build", "embed"} /\ adm'[a] # adm[a]) => idx' = idx
       /\ (adm[a].ret = "none" /\ adm'[a].ret = "False"
             /\ adm'[a].cause \in NamedCauses) =>
            /\ adm[a].pc \in {"build", "embed"}
            /\ adm'[a].pc = "done"
            /\ idx' = idx]_vars

\* a build failed on an empty knowledge base and the index built before is
\* still there to load
C9_Witness ==
  \E a \in Admins :
    /\ adm[a].ret = "False"
    /\ adm[a].cause = "no_documents"
    /\ Loadable(idx)

\* the persisted index is the one built from the documents now in the
\* knowledge base (none to load when there are no documents)
IndexMatchesDocuments ==
  IF kb = EmptySnap THEN ~Loadable(idx)
  ELSE Loadable(idx) /\ idx.faiss.snap = kb

\* C10 as claimed: after a completed upload of new files, save of an edited
\* file or removal of a file (in which no call to an outside service or to
\* the disk failed), the persisted index is the one built from the documents
\* now in the knowledge base.
C10_IndexFollowsDocuments ==
  \A a \in Admins :
    (/\ adm[a].pc = "done"
     /\ adm[a].op \in {"upload", "save", "remove"}
     /\ adm[a].ret # "none"
     /\ adm[a].cause \in {"", "no_documents"}) => IndexMatchesDocuments


\* the session is inside index_documents
InBuild(a) == adm[a].pc \in {"build", "embed", "save_faiss", "save_pkl"}

\* C11 as claimed: no two sessions are inside index_documents at once, so
\* no build writes the index between the two writes of another build.
C11_RebuildsExclusive ==
  \A a, b \in DOMAIN adm : (a # b /\ InBuild(a)) => ~InBuild(b)

\* the call has loaded the index from storage
HasLoaded(r) == r.loads > 0 /\ r.err # "load"

\* C12 as claimed: with no rebuild in between, the calls of query() in one
\* process load the index from storage at most once: after one call has
\* loaded it, another call that needs retrieval does not load it again.
C12_IndexLoadedOnce ==
  \A p, o \in DOMAIN q : (p # o /\ HasLoaded(q[p])) => ~HasLoaded(q[o])

\* C13 as claimed: a chat turn that was aborted by a failed call leaves the
\* conversation as it was before the turn: the message list in memory, the
\* persisted messages of the chat and its title.
C13_AbortedTurnLeavesConversation ==
  \A p \in DOMAIN ss :
    ss[p].pc = "aborted" =>
      LET was == ss[p].before[1]
      IN  /\ ss[p].messages = was.messages
          /\ db.log[ss[p].current] = was.log
          /\ db.sessions[ss[p].current].title = was.title

\* C14: without a configured credential every script run that would use the
\* knowledge-base component stops where it constructs it: no routing call,
\* index load, search or generation call is made, no handler of the
\* Knowledge Base tab runs, and no build or manifest step writes.
C14_NoCallWithoutCredential ==
  ~apiKey =>
    /\ \A p \in DOMAIN q :
         /\ q[p].pc \in {"idle", "halted"}
         /\ q[p].routeCalls = 0 /\ q[p].genCalls = 0
         /\ q[p].loads = 0 /\ q[p].searches = 0
         /\ q[p].result = <<>>
    /\ \A a \in DOMAIN adm :
         /\ adm[a].pc \in {"idle", "halted"}
         /\ adm[a].op = "none" /\ adm[a].ret = "none"
    /\ idx = NoIndex
    /\ manifest = NoFile
    /\ kb = EmptySnap

\* without a credential the chat page and the Knowledge Base tab have both
\* stopped in the constructor
C14_Witness ==
  /\ ~apiKey
  /\ \E p \in DOMAIN q : q[p].pc = "halted"
  /\ \E a \in DOMAIN adm : adm[a].pc = "halted"

\* the block shows its input, or its placeholder exactly when the input is
\* empty
Shows(block, input, placeholder) ==
  /\ block.text = input
  /\ block.placeholder = (IF input = <<>> THEN placeholder ELSE "")

\* C15: the prompt holds, after the role block, the four labelled blocks
\* conversation history, permanent context, temporary context and question
\* in this order; each of the first three shows its input, or its own
\* placeholder exactly when that input is empty; the temporary-context block
\* is there under a label of its own.
C15_PromptBlocks ==
  \A p \in DOMAIN q :
    LET r == q[p]
        P == r.prompt
    IN  P # <<>> =>
          /\ Len(P) = 5
          /\ [i \in 2..5 |-> P[i].label] =
               [i \in 2..5 |->
                  CASE i = 2 -> "CONVERSATION HISTORY"
                    [] i = 3 -> "PERMANENT COMPANY CONTEXT"
                    [] i = 4 -> "TEMPORARY UPLOADED FILE CONTEXT"
                    [] i = 5 -> "USER QUESTION"]
          /\ Len(P[2].text) = Len(r.hist)
          /\ P[2].placeholder = (IF r.hist = <<>> THEN NO_HISTORY ELSE "")
          /\ Shows(P[3], r.docs, NO_CONTEXT)
          /\ Shows(P[4], r.extra, NO_TEMP)
          /\ P[5].text = Question /\ P[5].placeholder = ""
          /\ \A i, j \in 1..5 : i # j => P[i].label # P[j].label

\* a prompt with both contexts supplied and no history
C15_Witness ==
  \E p \in DOMAIN q :
    /\ q[p].prompt # <<>>
    /\ q[p].docs # <<>>
    /\ q[p].extra # <<>>
    /\ q[p].hist = <<>>
    /\ q[p].prompt[2].placeholder = NO_HISTORY
    /\ q[p].prompt[3].text # <<>>
    /\ q[p].prompt[4].text # <<>>

\* the call is between its invocation and its return
Running(r) == r.pc \notin {"idle", "done", "failed", "halted"}

\* what a call has computed so far, without its arguments and position
Computed(r) == [r EXCEPT !.pc = "", !.trace = <<>>, !.extra = <<>>, !.hist = <<>>]

\* C16: a step of a query() call writes no store and nothing of another
\* call, and leaves the arguments of its own call as they are; a call starts
\* from nothing an earlier call computed; the chunks it retrieves are decided
\* by the persisted index and the scores of this call, and its result by its
\* chunks, its routing reply, its extra context and its answer.
C16_QueryHoldsNoState ==
  [][\A p \in DOMAIN q :
       q'[p] # q[p] =>
         /\ <<kbDir, kb, idx, manifest, settings, db, ss>>'
              = <<kbDir, kb, idx, manifest, settings, db, ss>>
         /\ \A o \in DOMAIN q \ {p} : q'[o] = q[o]
         /\ Running(q[p]) => (q'[p].hist = q[p].hist /\ q'[p].extra = q[p].extra)
         /\ q[p].pc = "idle" => Computed(q'[p]) = Computed(QIdle)
         /\ (q[p].pc = "retrieve" /\ q'[p].pc = "assemble") =>
              LET got == Retrieve(LoadLocal(idx), q'[p].sim)
              IN  q'[p].docs = [i \in 1..Len(got.docs) |-> got.docs[i].doc]
         /\ (q[p].result = <<>> /\ q'[p].result # <<>>) =>
              LET res == q'[p].result[1]
              IN  /\ res.answer \in Answers
                  /\ Len(res.sources) = Len(q[p].docs)
                  /\ \A i \in 1..Len(res.sources) :
                       res.sources[i] = SourceName(q[p].docs[i].file)
                  /\ res.used_kb = (HasYes(q[p].reply) \/ q[p].extra # <<>>)]_vars

\* two calls of one process have completed on different arguments with
\* different results
C16_Witness ==
  \E p, o \in DOMAIN q :
    /\ q[p].pc = "done" /\ q[o].pc = "done"
    /\ q[p].extra # q[o].extra
    /\ q[p].hist # q[o].hist
    /\ q[p].result[1].sources # <<>>
    /\ q[o].result[1].sources = <<>>
    /\ q[p].result # q[o].result

\* C17: the tone a call puts into its prompt is the one stored in the
\* settings row when the call reads it, which is the one written last; it is
\* the default when there is no row or the read fails; and what the admin
\* saves is what the row holds.
C17_PersonaLastWrite ==
  [][(\A p \in DOMAIN q :
        (q[p].pc = "assemble" /\ q'[p].pc = "generate") =>
          /\ q'[p].dbRead \in {"read", "error"}
          /\ q'[p].tone =
               (IF q'[p].dbRead = "error" \/ settings = Absent
                THEN DEFAULT_TONE ELSE settings)
          /\ q'[p].prompt[1].text = <<q'[p].tone>>
          /\ settings' = settings)
     /\ (settings' # settings =>
           ((\E a \in DOMAIN adm : adm[a].pc = "idle") /\ settings' \in Tones))]_vars

\* a call uses the tone the admin saved after an earlier call had used the
\* default
C17_Witness ==
  \E p, o \in DOMAIN q :
    /\ q[o].pc = "done" /\ q[o].tone = DEFAULT_TONE /\ q[o].dbRead = "read"
    /\ q[p].pc = "generate" /\ q[p].dbRead = "read"
    /\ q[p].tone = "Friendly"
    /\ settings = "Friendly"

\* C18: a result with sources has used_kb true, and has sources only when
\* the router said YES and the call retrieved.
C18_SourcesImplyUsedKb ==
  \A p \in DOMAIN q :
    (q[p].result # <<>> /\ q[p].result[1].sources # <<>>) =>
      /\ q[p].result[1].used_kb
      /\ HasYes(q[p].reply)
      /\ InTrace(q[p], "RETRIEVING")
      /\ q[p].loads = 1

\* a result with sources and used_kb true, on a reply in lower and upper case
\* and without extra context
C18_Witness ==
  \E p \in DOMAIN q :
    /\ q[p].result # <<>>
    /\ q[p].result[1].sources # <<>>
    /\ q[p].result[1].used_kb
    /\ q[p].extra = <<>>
    /\ q[p].reply = <<"y", "E", "S">>

\* every message of a user in the sequence was typed by this user
TypedBy(messages, user) ==
  \A i \in DOMAIN messages :
    messages[i].role = "user" => messages[i].content = TextOf(user)

\* C19 as claimed: while a user is logged in, the chat selected in the
\* browser session is a chat of this user and the messages in memory are
\* this user's; every persisted message of a chat was typed by its owner.
C19_SessionOfLoggedInUser ==
  /\ \A p \in DOMAIN ss :
       (ss[p].user # NoUser /\ ss[p].current # NoChat) =>
         /\ db.sessions[ss[p].current].owner = ss[p].user
         /\ TypedBy(ss[p].messages, ss[p].user)
  /\ \A s \in SessionIds :
       db.sessions[s].owner # NoUser => TypedBy(db.log[s], db.sessions[s].owner)

\* C20 as claimed: the extra context of a call holds only text of files
\* attached in the chat now selected, by the user now logged in.
C20_ExtraContextOfCurrentChat ==
  \A p \in DOMAIN ss :
    (Running(q[p]) /\ q[p].extra # <<>>) =>
      \A i \in DOMAIN q[p].extra :
        /\ q[p].extra[i].chat = ss[p].current
        /\ q[p].extra[i].owner = ss[p].user

\* C21 as claimed: a completed chat turn leaves the message list in memory
\* equal to what get_chat_history returns for the chat, and both are what
\* they were when the turn began followed by the user's message and then the
\* assistant's answer.
C21_MemoryEqualsLog ==
  [][\A p \in DOMAIN ss :
       Answer(p) =>
         LET was == ss[p].before[1]
             turn == <<Message("user", TextOf(ss[p].user)),
                       Message("assistant", <<q[p].result[1].answer>>)>>
         IN  /\ ss'[p].messages = GetChatHistory(db', ss[p].current)
             /\ ss'[p].messages = was.messages \o turn
             /\ GetChatHistory(db', ss[p].current)
                  = SelectMessages(was.log) \o turn]_vars

\* the accounts there are
Present == {i \in AccountIds : db.accounts.rows[i].username # ""}

\* the account authenticates with the password it was created with
Authenticates(i) ==
  LET row == db.accounts.rows[i]
  IN  VerifyUser(db.accounts, row.username, row.typed)
        = [id |-> i, role |-> row.role]

\* C22 as claimed: every account there is, whichever code created it,
\* authenticates with its username and the password it was created with:
\* verify_user returns its id and its stored role.
C22_CreatedAccountsAuthenticate == \A i \in Present : Authenticates(i)

====
